---- MODULE Spec2Model ----
(***************************************************************************)
(* Token validation and route authorization of agents-at-scale-ark:        *)
(*   ark_sdk.auth  (AuthConfig, TokenValidator, validate_token dependency) *)
(*   ark_api.auth  (AuthMiddleware)                                        *)
(*   ark_auth      (validate_jwt, validate_token dependency)               *)
(* Strings are modelled as sequences of symbols: the words "Bearer",       *)
(* "bearer", "Basic", a token name, a path segment are one symbol each,    *)
(* " " and "/" are the separator characters.                               *)
(***************************************************************************)
EXTENDS Integers, Sequences, FiniteSets, TLC

\* ------------------------------------------------------------------ bounds
\* largest token_validation_retries the configurations range over
MaxRetries == 4
\* how many times in a row a caller validates one token
MaxRepeats == 3
\* largest number of requests in flight at once
MaxTasks == 2
\* how far the clock runs, in ticks
MaxTicks == 3

\* ------------------------------------------------------- values and helpers
\* Python's None
None == "<None>"
\* an attribute the configuration object does not define (AttributeError on read)
Absent == "<absent>"

\* Python truthiness of an Optional[str]
Truthy(v) == v \notin {None, ""}

RECURSIVE Pow2(_)
Pow2(n) == IF n <= 0 THEN 1 ELSE 2 * Pow2(n - 1)

\* str.startswith on symbol sequences
StartsWith(s, p) == Len(s) >= Len(p) /\ SubSeq(s, 1, Len(p)) = p

\* s[n:] of Python
DropPrefix(s, n) == SubSeq(s, n + 1, Len(s))

\* ------------------------------------------------------------------ tokens
\* What a bearer token is to the JWT library: its structure, signature,
\* expiry and the aud / iss claims it carries.
TokenNames == {"tokA", "tokB", "tokPlain", "tokExp", "tokBad", "junk"}

TokenClaims(t) ==
    CASE t = "tokA"   -> [wellformed |-> TRUE,  signed |-> TRUE,  expired |-> FALSE,
                          aud |-> "okta-audience", iss |-> "okta-issuer"]
      [] t = "tokB"   -> [wellformed |-> TRUE,  signed |-> TRUE,  expired |-> FALSE,
                          aud |-> "jwt-audience", iss |-> "jwt-issuer"]
      [] t = "tokPlain" -> [wellformed |-> TRUE, signed |-> TRUE, expired |-> FALSE,
                          aud |-> None, iss |-> None]
      [] t = "tokExp" -> [wellformed |-> TRUE,  signed |-> TRUE,  expired |-> TRUE,
                          aud |-> "okta-audience", iss |-> "okta-issuer"]
      [] t = "tokBad" -> [wellformed |-> TRUE,  signed |-> FALSE, expired |-> FALSE,
                          aud |-> "okta-audience", iss |-> "okta-issuer"]
      [] OTHER        -> [wellformed |-> FALSE, signed |-> FALSE, expired |-> FALSE,
                          aud |-> None, iss |-> None]

\* the token strings handed to the validator: a token name, possibly with
\* blanks left around it by the caller's slicing
IsJwtString(tok) == Len(tok) = 1 /\ tok[1] \in TokenNames /\ TokenClaims(tok[1]).wellformed

\* ---------------------------------------------------------- configuration
\* AuthConfig: the fields and their defaults. okta_audience / okta_issuer are
\* read by TokenValidator.validate_token; a configuration object that does
\* not define them (the AuthConfig class as written) has them Absent.
DefaultCacheTtl == 3600
DefaultValidationTimeout == 30
DefaultRetries == 3

JwksUrl == "https://idp/.well-known/jwks.json"

AuthConfig(jaud, jiss, oaud, oiss, url, retries) ==
    [jwt_audience |-> jaud, jwt_issuer |-> jiss,
     okta_audience |-> oaud, okta_issuer |-> oiss,
     jwks_url |-> url,
     jwks_cache_ttl |-> DefaultCacheTtl,
     token_validation_timeout |-> DefaultValidationTimeout,
     token_validation_retries |-> retries]

\* the audience / issuer profiles the gateway is run under
Profiles ==
    { <<None, None, Absent, Absent>>,
      <<"jwt-audience", "jwt-issuer", Absent, Absent>>,
      <<"jwt-audience", "jwt-issuer", "okta-audience", "okta-issuer">>,
      <<None, None, "okta-audience", "okta-issuer">>,
      <<None, None, None, None>> }

Configs ==
    { AuthConfig(p[1], p[2], p[3], p[4], url, n) :
        p \in Profiles, url \in {None, "", JwksUrl}, n \in 0..MaxRetries }

\* every combination of unset, empty and set audiences and issuers
JwtValues(v) == {None, "", v}
OktaValues(v) == {Absent, None, "", v}
PolicyConfigs ==
    { AuthConfig(ja, ji, oa, oi, JwksUrl, DefaultRetries) :
        ja \in JwtValues("jwt-audience"), ji \in JwtValues("jwt-issuer"),
        oa \in OktaValues("okta-audience"), oi \in OktaValues("okta-issuer") }

\* ark_auth.config.settings: AuthSettings read from the environment
AuthSettings(iss, aud) == [okta_issuer |-> iss, okta_audience |-> aud]
Settings ==
    { AuthSettings(iss, aud) :
        iss \in {None, "", "okta-issuer"}, aud \in {None, "", "okta-audience"} }

\* ------------------------------------------------- pyjwt (library contract)
\* the exception classes of the JWT library that derive from its InvalidTokenError
PyJwtInvalidTokenErrors ==
    {"InvalidTokenError", "DecodeError", "ExpiredSignatureError", "InvalidSignatureError",
     "InvalidAudienceError", "InvalidIssuerError", "MissingRequiredClaimError"}

\* outcomes of one contact with the JWKS endpoint
KeySourceOutcomes == {"ok", "unavailable"}

\* PyJWKClient.get_signing_key_from_jwt: parses the unverified header, then
\* asks the key source for the key; raises is "" when a key is returned
GetSigningKeyFromJwt(tok, ks) ==
    IF ~IsJwtString(tok) THEN [raises |-> "DecodeError", fetched |-> 0]
    ELSE IF ks # "ok" THEN [raises |-> "PyJWKClientError", fetched |-> 1]
    ELSE [raises |-> "", fetched |-> 1]

\* decode(token, key, audience=, issuer=, options=): "" when the payload is returned
Decode(tok, audience, issuer, verify_aud, verify_iss) ==
    LET c == TokenClaims(tok[1]) IN
    IF ~IsJwtString(tok) THEN "DecodeError"
    ELSE IF ~c.signed THEN "InvalidSignatureError"
    ELSE IF c.expired THEN "ExpiredSignatureError"
    ELSE IF verify_iss /\ issuer # None /\ c.iss = None THEN "MissingRequiredClaimError"
    ELSE IF verify_iss /\ issuer # None /\ c.iss # issuer THEN "InvalidIssuerError"
    ELSE IF verify_aud /\ audience # None /\ c.aud = None THEN "MissingRequiredClaimError"
    ELSE IF verify_aud /\ c.aud # audience THEN "InvalidAudienceError"
    ELSE ""

\* ------------------------------------------------ ark_sdk.auth.exceptions
\* isinstance(e, TokenValidationError) for the error kinds the validator raises
IsTokenValidationError(kind) == kind = "TokenValidationError"

\* create_auth_exception(detail): the HTTPException the dependency raises
CreateAuthException(detail) == [status |-> 401, detail |-> detail]

\* ------------------------------------------------ ark_sdk.auth.validator
\* faulty variant: the client is created whether or not a JWKS URL is configured
GetJwksClientAlways(cfg, client) == TRUE

\* TokenValidator._get_jwks_client: the client after the call (FALSE: None)
GetJwksClient(cfg, client) ==
    IF client = FALSE /\ Truthy(cfg.jwks_url) THEN TRUE ELSE client

\* Python's `a or b`
PyOr(a, b) == IF Truthy(a) THEN a ELSE b

\* validator.py:57-58
EffectiveAudience(cfg) == PyOr(cfg.jwt_audience, cfg.okta_audience)
EffectiveIssuer(cfg) == PyOr(cfg.jwt_issuer, cfg.okta_issuer)

\* faulty variant: the clause for the library's InvalidTokenError comes first
\* and takes the expired signature with it
ExceptClausesExpiredShadowed(exc) ==
    IF exc \in PyJwtInvalidTokenErrors THEN
        [kind |-> "InvalidTokenError", msg |-> "Invalid token"]
    ELSE
        [kind |-> "TokenValidationError", msg |-> "Token validation failed"]

\* the except clauses of validate_token, in their order
ExceptClauses(exc) ==
    IF exc = "ExpiredSignatureError" THEN
        [kind |-> "ExpiredTokenError", msg |-> "Token has expired"]
    ELSE IF exc \in PyJwtInvalidTokenErrors THEN
        [kind |-> "InvalidTokenError", msg |-> "Invalid token"]
    ELSE IF exc = "DecodeError" THEN
        [kind |-> "InvalidTokenError", msg |-> "Token could not be decoded"]
    ELSE
        [kind |-> "TokenValidationError", msg |-> "Token validation failed"]

NoDecode == [called |-> FALSE, audience |-> None, issuer |-> None,
             verify_aud |-> FALSE, verify_iss |-> FALSE]

\* the outcome of the try block of validate_token: the exception class raised
\* inside it ("" when the payload is returned), whether the key source was
\* contacted, and the arguments decode was called with
TryBlock(cfg, client, tok, ks) ==
    IF client = FALSE THEN
        [raises |-> "TokenValidationError", cause |-> "JWKS URL not configured",
         fetched |-> 0, decode |-> NoDecode]
    ELSE LET k == GetSigningKeyFromJwt(tok, ks) IN
    IF k.raises # "" THEN
        [raises |-> k.raises, cause |-> k.raises, fetched |-> k.fetched, decode |-> NoDecode]
    ELSE LET audience == EffectiveAudience(cfg)
             issuer == EffectiveIssuer(cfg) IN
    IF audience = Absent \/ issuer = Absent THEN
        [raises |-> "AttributeError", cause |-> "AttributeError",
         fetched |-> k.fetched, decode |-> NoDecode]
    ELSE LET args == [called |-> TRUE, audience |-> audience, issuer |-> issuer,
                      verify_aud |-> audience # None, verify_iss |-> issuer # None]
             d == Decode(tok, audience, issuer, args.verify_aud, args.verify_iss) IN
        [raises |-> d, cause |-> d, fetched |-> k.fetched, decode |-> args]

\* faulty variant: a client left behind by an earlier call is not taken up again
ValidateTokenSingleUse(cfg, client0, tok, ks) ==
    LET client == GetJwksClient(cfg, client0)
        t == TryBlock(cfg, IF client0 THEN FALSE ELSE client, tok, ks) IN
    IF t.raises = "" THEN
        [kind |-> "ok", msg |-> "", cause |-> "", payload |-> tok[1],
         fetched |-> t.fetched, decode |-> t.decode, client |-> client]
    ELSE
        [kind |-> ExceptClauses(t.raises).kind, msg |-> ExceptClauses(t.raises).msg,
         cause |-> t.cause, payload |-> None,
         fetched |-> t.fetched, decode |-> t.decode, client |-> client]

\* TokenValidator.validate_token: kind "ok" when the payload is returned,
\* else the kind of the error raised
ValidateToken(cfg, client0, tok, ks) ==
    LET client == GetJwksClient(cfg, client0)
        t == TryBlock(cfg, client, tok, ks) IN
    IF t.raises = "" THEN
        [kind |-> "ok", msg |-> "", cause |-> "", payload |-> tok[1],
         fetched |-> t.fetched, decode |-> t.decode, client |-> client]
    ELSE
        [kind |-> ExceptClauses(t.raises).kind, msg |-> ExceptClauses(t.raises).msg,
         cause |-> t.cause, payload |-> None,
         fetched |-> t.fetched, decode |-> t.decode, client |-> client]

\* faulty variant: the loop body runs once more than the range allows
LoopExhaustedOffByOne(cfg, attempt) == attempt > cfg.token_validation_retries

\* range(self.config.token_validation_retries) has no value left for attempt
LoopExhausted(cfg, attempt) == attempt >= cfg.token_validation_retries

\* faulty variant: the loop also sleeps after its last attempt
ShouldSleepAlways(cfg, attempt) == attempt < cfg.token_validation_retries

\* validator.py:110, the test that decides between sleeping and giving up
ShouldSleep(cfg, attempt) == attempt < cfg.token_validation_retries - 1

\* the exponential backoff of validate_token_with_retry, in units of 100 ms
BackoffBase == 1
\* faulty variant: the exponent is one too large
BackoffDelayDoubled(attempt) == BackoffBase * Pow2(attempt + 1)
BackoffDelay(attempt) == BackoffBase * Pow2(attempt)

\* ------------------------------------------ the key cache of the JWKS client
\* seconds per tick of the clock: half the default lifetime of a key set
TickSeconds == DefaultCacheTtl \div 2

\* the key identifiers of the JWKS document the endpoint serves
JwksDocument == {"kid-1", "kid-2"}

\* the cache of a client that has fetched nothing yet
EmptyCache == [keys |-> {}, at |-> 0]

\* faulty variant: the client is built with twice the configured lifetime
ClientLifespanDoubled(cfg) == 2 * cfg.jwks_cache_ttl

\* validator.py:28-31, the lifetime the client is given for a fetched key set
ClientLifespan(cfg) == cfg.jwks_cache_ttl

\* the cached key set is there and not older than its lifetime
CacheFresh(cache, now, lifespan) == cache.keys # {} /\ now <= cache.at + lifespan

\* faulty variant: the fetched keys are stored one at a time
CachePutKeyByKey(cache, doc, now) ==
    [keys |-> cache.keys \cup {CHOOSE k \in doc : k \notin cache.keys \/ cache.keys = doc},
     at |-> now]

\* the client stores a fetched document: the whole key set replaces the old one
CachePut(cache, doc, now) == [keys |-> doc, at |-> now]

\* how the client comes by the signing key: from a fresh cache, else from the
\* endpoint; key_at is the fetch time of the key set used (-1: none)
KeyLookup(cache, now, lifespan, src) ==
    IF CacheFresh(cache, now, lifespan) THEN
        [outcome |-> "ok", cache |-> cache, contacted |-> FALSE, key_at |-> cache.at]
    ELSE IF src = "ok" THEN
        [outcome |-> "ok", cache |-> CachePut(cache, JwksDocument, now),
         contacted |-> TRUE, key_at |-> now]
    ELSE
        [outcome |-> "unavailable", cache |-> cache, contacted |-> TRUE, key_at |-> -1]

\* validate_token on a validator whose client keeps its key cache: the client
\* is asked for the key only when it exists and the token header parses
ValidateTokenCached(cfg, client0, tok, cache, now, src) ==
    LET cache0 == IF client0 THEN cache ELSE EmptyCache
        asks == GetJwksClient(cfg, client0) /\ IsJwtString(tok)
        look == IF asks THEN KeyLookup(cache0, now, ClientLifespan(cfg), src)
                ELSE [outcome |-> "ok", cache |-> cache0, contacted |-> FALSE, key_at |-> -1]
        r == ValidateToken(cfg, client0, tok, look.outcome) IN
    [kind |-> r.kind, msg |-> r.msg, cause |-> r.cause, payload |-> r.payload,
     fetched |-> r.fetched, decode |-> r.decode, client |-> r.client,
     cache |-> look.cache, contacted |-> look.contacted, key_at |-> look.key_at]

\* ------------------------------------------------ ark_sdk.auth.dependencies
\* faulty variant: every call builds a validator from the environment as it is
GetValidatorRebuilt(isset, cfg, env) == env

\* get_validator: the AuthConfig of the validator it returns; the validator
\* is built from the environment only when there is none yet
GetValidator(isset, cfg, env) == IF isset THEN cfg ELSE env

\* ------------------------------------------------------ concurrent requests
TaskIds == 1..MaxTasks

\* one request in flight: where it is in validate_token_with_retry, its loop
\* variable, the kind of its last_error, how it ended and the fetch time of
\* the key set its last validate_token call used (-1: none)
IdleTask == [pc |-> "idle", token |-> <<>>, attempt |-> 0, last_error |-> "none",
             verdict |-> "none", key_at |-> -1]

\* ---------------------------------------------------------------- state
VARIABLES
    config,         \* the AuthConfig of the shared validator
    skip_auth_env,  \* ARK_SKIP_AUTH in the process environment
    validator,      \* dependencies._validator is not None
    jwks_client,    \* TokenValidator._jwks_client is not None
    pc,             \* "idle", "loop", "sleep", "done"
    caller,         \* "none", "dispatch", "with_retry", "validate"
    path,           \* request.url.path
    auth_header,    \* the request's Authorization header
    token,          \* the token handed to the validator
    attempt,        \* loop variable of validate_token_with_retry
    last_error,     \* last_error of validate_token_with_retry
    log,            \* the validate_token calls made for this request, in order
    sleeps,         \* the asyncio.sleep delays of this request, in order
    result,         \* what a direct validator call returned or raised
    response,       \* the response the middleware produced itself
    forwarded,      \* call_next was invoked for this request
    settings,       \* ark_auth.config.settings
    jwt_calls,      \* the validate_jwt calls made for this request, in order
    console,        \* what print() wrote to stdout for this request, in order
    public_routes,  \* ark_api.auth.config.PUBLIC_ROUTES as it stands
    environ,        \* the policy AuthConfig() would read from the environment now
    tasks,          \* the requests that are in flight concurrently, by task
    key_cache,      \* the JWK set the JWKS client holds, with its fetch time
    clock           \* the monotonic clock, in seconds

vars == <<config, skip_auth_env, validator, jwks_client, pc, caller, path, auth_header,
          token, attempt, last_error, log, sleeps, result, response, forwarded,
          settings, jwt_calls, console, public_routes, environ, tasks, key_cache, clock>>

\* the state of ark_auth that the ark_sdk / ark_api operations leave alone
arkVars == <<settings, jwt_calls, console>>

\* the route table, which no request changes
routeVars == <<public_routes>>

\* the concurrent requests, the key cache and the clock, which the operations
\* on the single request of the sequential specifications leave alone
taskVars == <<environ, tasks, key_cache, clock>>

\* the state of the ark_sdk validator that the ark_auth operations leave alone
sdkVars == <<config, validator, jwks_client, attempt, last_error, log, sleeps, path, forwarded,
            public_routes, environ, tasks, key_cache, clock>>

\* ------------------------------------------------ ark_api.auth.config
\* PUBLIC_ROUTES: the paths registered public
PublicRoutes ==
    { <<"/", "health">>, <<"/", "ready">>, <<"/", "docs">>, <<"/", "openapi.json">> }

\* route is a path-prefix of p: equal, or followed by a "/" in p
IsPathPrefix(route, p) ==
    /\ StartsWith(p, route)
    /\ (Len(p) = Len(route) \/ p[Len(route) + 1] = "/")

\* is_route_authenticated(path): protected unless a public entry matches
IsRouteAuthenticated(p) == ~ \E r \in public_routes : IsPathPrefix(r, p)

\* ------------------------------------------------------------ requests
Paths ==
    { <<"/", "health">>, <<"/", "health", "/", "live">>, <<"/", "health", "z">>,
      <<"/", "v1", "/", "namespaces">>, <<"/", "unknown">> }

BearerPrefix == <<"Bearer", " ">>

\* request.headers.get("Authorization"): absent, or the header text
NoHeader == [present |-> FALSE, text |-> <<>>]
HeaderOf(text) == [present |-> TRUE, text |-> text]

Headers ==
    {NoHeader}
    \cup { HeaderOf(BearerPrefix \o <<t>>) : t \in TokenNames }
    \cup { HeaderOf(x) : x \in { <<>>, <<"Basic", " ", "tokA">>, <<"tokA">>,
                                 <<"Bearer">>, <<"Bearer", " ">>,
                                 <<"bearer", " ", "tokA">>,
                                 <<" ", "Bearer", " ", "tokA">>,
                                 <<"Bearer", " ", " ", "tokA", " ">> } }

\* the values ARK_SKIP_AUTH takes in the environment
SkipAuthValues == {"<unset>", "true", "TRUE", "false"}

\* os.getenv("ARK_SKIP_AUTH", "false").lower() == "true"
Lower(v) == IF v = "TRUE" THEN "true" ELSE v
\* faulty variant: the value is compared without lowering it
SkipAuthCaseSensitive(env) == env = "true"
SkipAuth(env) == Lower(IF env = "<unset>" THEN "false" ELSE env) = "true"

\* faulty variant: the route table is not consulted, every path is authenticated
RequiresAuthEveryRoute(env, p) == ~SkipAuth(env)

\* AuthMiddleware.dispatch authenticates the request: bypass off and route protected
RequiresAuth(env, p) == ~SkipAuth(env) /\ IsRouteAuthenticated(p)

\* faulty variant: the scheme of the header is not looked at
HasBearerPrefixAnyScheme(h) == h.present /\ h.text # <<>>

\* auth_header.startswith("Bearer ") of a header that is there and not empty
HasBearerPrefix(h) == h.present /\ h.text # <<>> /\ StartsWith(h.text, BearerPrefix)

\* authorization[7:]
ExtractToken(text) == DropPrefix(text, Len(BearerPrefix))

\* ------------------------------------------------------------- ark_auth
\* str.split(" "): the pieces between single blanks
RECURSIVE SplitBlank(_, _)
SplitBlank(s, piece) ==
    IF s = <<>> THEN <<piece>>
    ELSE IF s[1] = " " THEN <<piece>> \o SplitBlank(Tail(s), <<>>)
    ELSE SplitBlank(Tail(s), Append(piece, s[1]))
Split(s) == SplitBlank(s, <<>>)

\* InvalidTokenException of ark_auth.exceptions
InvalidTokenException == [status |-> 401, detail |-> "Invalid or expired token"]

\* the payload validate_jwt hands back when the Okta settings are not set
MockPayload == "test-user"

\* AsyncKeyFetcher.get_key(token): "" when a key entry is returned
FetcherGetKey(tok, ks) ==
    IF ~IsJwtString(tok) THEN "JWTFormatError"
    ELSE IF ks # "ok" THEN "JWTHTTPFetchError"
    ELSE ""

\* faulty variant: the session is closed at the end of the try block only
SessionAfterTrySuccessOnly(kind) == IF kind = "ok" THEN "closed" ELSE "open"

\* the finally clause of validate_jwt: the state of the fetcher's HTTP session
\* when validate_jwt returns (kind "ok") or raises
SessionAfterTry(kind) == "closed"

\* ark_auth.validator.validate_jwt: kind "ok" when a payload is returned,
\* "ValueError" when it raises; verified tells whether jwt.decode accepted
\* the token, fetcher whether an AsyncKeyFetcher was created, session what
\* has become of the HTTP session of that fetcher ("none": there is none),
\* and key_asked whether the fetcher was asked for a key
ValidateJwt(st, tok, ks) ==
    IF ~Truthy(st.okta_issuer) \/ ~Truthy(st.okta_audience) THEN
        [token |-> tok, kind |-> "ok", msg |-> "", payload |-> MockPayload,
         verified |-> FALSE, fetcher |-> FALSE, session |-> "none", key_asked |-> FALSE]
    ELSE LET k == FetcherGetKey(tok, ks) IN
    IF k # "" THEN
        [token |-> tok, kind |-> "ValueError", msg |-> "Token validation failed",
         payload |-> None, verified |-> FALSE, fetcher |-> TRUE,
         session |-> SessionAfterTry("ValueError"), key_asked |-> TRUE]
    ELSE LET d == Decode(tok, st.okta_audience, st.okta_issuer, TRUE, TRUE) IN
    IF d = "" THEN
        [token |-> tok, kind |-> "ok", msg |-> "", payload |-> tok[1],
         verified |-> TRUE, fetcher |-> TRUE,
         session |-> SessionAfterTry("ok"), key_asked |-> TRUE]
    ELSE IF d \in PyJwtInvalidTokenErrors THEN
        [token |-> tok, kind |-> "ValueError", msg |-> "Invalid token",
         payload |-> None, verified |-> FALSE, fetcher |-> TRUE,
         session |-> SessionAfterTry("ValueError"), key_asked |-> TRUE]
    ELSE
        [token |-> tok, kind |-> "ValueError", msg |-> "Token validation failed",
         payload |-> None, verified |-> FALSE, fetcher |-> TRUE,
         session |-> SessionAfterTry("ValueError"), key_asked |-> TRUE]

NoError == [kind |-> "none", msg |-> "", cause |-> ""]
NoResult == [kind |-> "none", msg |-> "", cause |-> "", payload |-> None]
NoResponse == [status |-> 0, detail |-> ""]

ErrorOf(r) == [kind |-> r.kind, msg |-> r.msg, cause |-> r.cause]
ResultOf(r) == [kind |-> r.kind, msg |-> r.msg, cause |-> r.cause, payload |-> r.payload]

\* the part of the state one request owns
ResetRequest ==
    /\ pc' = "idle" /\ caller' = "none"
    /\ path' = <<>> /\ auth_header' = NoHeader /\ token' = <<>>
    /\ attempt' = 0 /\ last_error' = NoError
    /\ log' = <<>> /\ sleeps' = <<>>
    /\ result' = NoResult /\ response' = NoResponse /\ forwarded' = FALSE
    /\ jwt_calls' = <<>> /\ console' = <<>>

\* the state before the first request, but for the configuration
InitRest ==
    /\ skip_auth_env = "<unset>"
    /\ validator = FALSE /\ jwks_client = FALSE
    /\ pc = "idle" /\ caller = "none"
    /\ path = <<>> /\ auth_header = NoHeader /\ token = <<>>
    /\ attempt = 0 /\ last_error = NoError
    /\ log = <<>> /\ sleeps = <<>>
    /\ result = NoResult /\ response = NoResponse /\ forwarded = FALSE
    /\ jwt_calls = <<>> /\ console = <<>>
    /\ public_routes = PublicRoutes
    /\ environ = config
    /\ tasks = [p \in TaskIds |-> IdleTask]
    /\ key_cache = EmptyCache
    /\ clock = 0

Init ==
    /\ config \in Configs
    /\ settings = AuthSettings(None, None)
    /\ InitRest

\* the environment changes ARK_SKIP_AUTH between two requests
SetSkipAuth(v) ==
    /\ pc = "idle"
    /\ UNCHANGED arkVars /\ UNCHANGED routeVars /\ UNCHANGED taskVars
    /\ v # skip_auth_env
    /\ skip_auth_env' = v
    /\ UNCHANGED <<config, validator, jwks_client, pc, caller, path, auth_header, token,
                   attempt, last_error, log, sleeps, result, response, forwarded>>

\* faulty variant: the middleware falls through to call_next after a validator error
FinishFallsThrough(r) ==
    /\ result' = r
    /\ IF caller = "dispatch"
       THEN forwarded' = TRUE /\ response' = NoResponse
       ELSE UNCHANGED <<response, forwarded>>

\* how a finished validate_token_with_retry call ends for its caller: the
\* dependency validate_token turns any error into create_auth_exception and
\* AuthMiddleware.dispatch turns that into a JSON response, or calls call_next
Finish(r) ==
    /\ result' = r
    /\ IF caller = "dispatch" THEN
          IF r.kind = "ok"
          THEN forwarded' = TRUE /\ response' = NoResponse
          ELSE forwarded' = FALSE
               /\ response' = CreateAuthException("Token validation failed")
       ELSE UNCHANGED <<response, forwarded>>

\* AuthMiddleware.dispatch, up to the call of validate_token_with_retry
Dispatch(p, h) ==
    /\ pc = "idle"
    /\ UNCHANGED arkVars /\ UNCHANGED routeVars /\ UNCHANGED taskVars
    /\ path' = p /\ auth_header' = h /\ caller' = "dispatch"
    /\ UNCHANGED <<config, skip_auth_env, jwks_client, attempt, last_error, log, sleeps, result>>
    /\ IF ~RequiresAuth(skip_auth_env, p) THEN
          /\ forwarded' = TRUE /\ response' = NoResponse /\ pc' = "done"
          /\ UNCHANGED <<validator, token>>
       ELSE IF ~HasBearerPrefix(h) THEN
          /\ forwarded' = FALSE /\ pc' = "done"
          /\ response' = [status |-> 401, detail |-> "Missing or invalid authorization header"]
          /\ UNCHANGED <<validator, token>>
       ELSE IF ExtractToken(h.text) = <<>> THEN
          /\ forwarded' = FALSE /\ pc' = "done"
          /\ response' = CreateAuthException("Missing token")
          /\ UNCHANGED <<validator, token>>
       ELSE
          /\ token' = ExtractToken(h.text)
          /\ validator' = TRUE
          /\ pc' = "loop"
          /\ UNCHANGED <<forwarded, response>>

\* AuthenticationMiddleware of ark_api.auth.authentication: its route test
UnprotectedRoutes == PublicRoutes
\* faulty variant: only the paths under a listed API prefix are authenticated
IsUnprotectedUnlessListed(p) == ~StartsWith(p, <<"/", "v1">>)
IsUnprotected(p) == \E r \in UnprotectedRoutes : StartsWith(p, r)

\* AuthenticationMiddleware.dispatch; the HTTPException it raises is kept in
\* response, with result telling that it was raised and not returned
LegacyDispatch(p, h) ==
    /\ pc = "idle"
    /\ UNCHANGED arkVars /\ UNCHANGED routeVars /\ UNCHANGED taskVars
    /\ path' = p /\ auth_header' = h /\ caller' = "legacy" /\ pc' = "done"
    /\ UNCHANGED <<config, skip_auth_env, validator, jwks_client, attempt, last_error,
                   log, sleeps>>
    /\ IF IsUnprotected(p) THEN
          /\ forwarded' = TRUE
          /\ UNCHANGED <<token, result, response>>
       ELSE IF ~HasBearerPrefix(h) THEN
          /\ forwarded' = FALSE
          /\ result' = [kind |-> "HTTPException", msg |-> "", cause |-> "", payload |-> None]
          /\ response' = [status |-> 401, detail |-> "Missing or invalid Authorization header"]
          /\ UNCHANGED token
       ELSE
          LET t == Split(h.text)[2]
              d == Decode(t, None, None, TRUE, TRUE) IN
          /\ token' = t
          /\ IF d = ""
             THEN /\ forwarded' = TRUE
                  /\ UNCHANGED <<result, response>>
             ELSE /\ forwarded' = FALSE
                  /\ result' = [kind |-> "HTTPException", msg |-> "", cause |-> d,
                                payload |-> None]
                  /\ response' = [status |-> 401, detail |-> "Invalid token"]

\* a direct call of TokenValidator.validate_token on the shared validator
CallValidateToken(t, ks) ==
    /\ pc = "idle"
    /\ UNCHANGED arkVars /\ UNCHANGED routeVars /\ UNCHANGED taskVars
    /\ LET r == ValidateToken(config, jwks_client, t, ks) IN
          /\ jwks_client' = r.client
          /\ log' = <<r>>
          /\ result' = ResultOf(r)
    /\ caller' = "validate" /\ token' = t /\ pc' = "done"
    /\ UNCHANGED <<config, skip_auth_env, validator, path, auth_header, attempt,
                   last_error, sleeps, response, forwarded>>

\* the caller of validate_token calls it once more with the same token
RevalidateToken(ks) ==
    /\ pc = "done" /\ caller = "validate"
    /\ Len(log) < MaxRepeats
    /\ UNCHANGED arkVars /\ UNCHANGED routeVars /\ UNCHANGED taskVars
    /\ LET r == ValidateToken(config, jwks_client, token, ks) IN
          /\ jwks_client' = r.client
          /\ log' = Append(log, r)
          /\ result' = ResultOf(r)
    /\ UNCHANGED <<config, skip_auth_env, validator, pc, caller, path, auth_header, token,
                   attempt, last_error, sleeps, response, forwarded>>

\* a direct call of TokenValidator.validate_token_with_retry
CallValidateTokenWithRetry(t) ==
    /\ pc = "idle"
    /\ UNCHANGED arkVars /\ UNCHANGED routeVars /\ UNCHANGED taskVars
    /\ caller' = "with_retry" /\ token' = t /\ pc' = "loop"
    /\ UNCHANGED <<config, skip_auth_env, validator, jwks_client, path, auth_header, attempt,
                   last_error, log, sleeps, result, response, forwarded>>

\* one iteration of the for loop of validate_token_with_retry, or its exit
RetryStep(ks) ==
    /\ pc = "loop"
    /\ UNCHANGED arkVars /\ UNCHANGED routeVars /\ UNCHANGED taskVars
    /\ UNCHANGED <<config, skip_auth_env, validator, path, auth_header, token, caller>>
    /\ IF LoopExhausted(config, attempt) THEN
          \* range exhausted: raise last_error or TokenValidationError(...)
          LET e == IF last_error.kind # "none" THEN last_error
                   ELSE [kind |-> "TokenValidationError",
                         msg |-> "Token validation failed after retries", cause |-> ""] IN
          /\ Finish([kind |-> e.kind, msg |-> e.msg, cause |-> e.cause, payload |-> None])
          /\ pc' = "done"
          /\ UNCHANGED <<jwks_client, attempt, last_error, log, sleeps>>
       ELSE
          LET r == ValidateToken(config, jwks_client, token, ks) IN
          /\ jwks_client' = r.client
          /\ log' = Append(log, r)
          /\ IF r.kind = "ok" \/ ~IsTokenValidationError(r.kind) THEN
                \* the payload is returned, or the error leaves the loop
                /\ Finish(ResultOf(r))
                /\ pc' = "done"
                /\ UNCHANGED <<attempt, last_error, sleeps>>
             ELSE
                /\ last_error' = ErrorOf(r)
                /\ UNCHANGED <<result, response, forwarded, sleeps>>
                /\ IF ShouldSleep(config, attempt)
                   THEN pc' = "sleep" /\ attempt' = attempt
                   ELSE pc' = "loop" /\ attempt' = attempt + 1

\* faulty variant: the sleep never returns
BackoffSleepNeverReturns ==
    /\ pc = "sleep"
    /\ FALSE
    /\ UNCHANGED vars

\* asyncio.sleep(0.1 * 2 ** attempt) returns and the loop goes on
BackoffSleep ==
    /\ pc = "sleep"
    /\ UNCHANGED arkVars /\ UNCHANGED routeVars /\ UNCHANGED taskVars
    /\ sleeps' = Append(sleeps, BackoffDelay(attempt))
    /\ attempt' = attempt + 1
    /\ pc' = "loop"
    /\ UNCHANGED <<config, skip_auth_env, validator, jwks_client, caller, path, auth_header,
                   token, last_error, log, result, response, forwarded>>

\* the request or call is over; the next one starts from the shared state
Return ==
    /\ pc = "done"
    /\ ResetRequest
    /\ UNCHANGED <<config, skip_auth_env, validator, jwks_client, settings, public_routes>>
    /\ UNCHANGED taskVars

\* a direct call of ark_auth.validator.validate_jwt
CallValidateJwt(t, ks) ==
    /\ pc = "idle"
    /\ LET r == ValidateJwt(settings, t, ks) IN
          /\ jwt_calls' = <<r>>
          /\ result' = [kind |-> r.kind, msg |-> r.msg, cause |-> "", payload |-> r.payload]
    /\ caller' = "validate_jwt" /\ token' = t /\ pc' = "done"
    /\ UNCHANGED <<skip_auth_env, auth_header, response, settings, console>>
    /\ UNCHANGED sdkVars

\* token[:10] as it is printed: a JWT is longer than ten characters, so what
\* is printed of it is a proper prefix and not the token
Prefix10(tok) == IF tok = <<>> THEN <<>> ELSE <<"<first 10 characters>">>

\* f"{authorization}" of an Optional[str]
Formatted(h) == IF h.present THEN h.text ELSE <<"None">>

\* the print() calls of the ark_auth dependency, in the order they are made
\* for header h; r is what validate_jwt returned or raised for its token
ArkDebugPrints(env, h, r) ==
    <<  <<"DEBUG: validate_token called with authorization: ">> \o Formatted(h) >>
    \o IF SkipAuth(env) THEN
           << <<"DEBUG: Skipping auth due to ARK_SKIP_AUTH=true">> >>
       ELSE IF ~h.present \/ h.text = <<>> THEN
           << <<"DEBUG: No authorization header, raising InvalidTokenException">> >>
       ELSE IF ~StartsWith(h.text, BearerPrefix) THEN
           << <<"DEBUG: Invalid authorization format, raising InvalidTokenException">> >>
       ELSE
           << <<"DEBUG: Validating token: ">> \o Prefix10(r.token) \o <<"...">>,
              IF r.kind = "ok"
              THEN <<"DEBUG: Token validation successful">>
              ELSE <<"DEBUG: Token validation failed: ", r.msg>> >>

\* the ark_auth dependency validate_token(authorization)
ArkValidateToken(h, ks) ==
    /\ pc = "idle"
    /\ caller' = "ark_validate_token" /\ auth_header' = h /\ pc' = "done"
    /\ UNCHANGED <<skip_auth_env, settings>>
    /\ UNCHANGED sdkVars
    /\ IF SkipAuth(skip_auth_env) THEN
          /\ result' = [kind |-> "ok", msg |-> "", cause |-> "", payload |-> None]
          /\ console' = ArkDebugPrints(skip_auth_env, h, NoResult)
          /\ UNCHANGED <<token, response, jwt_calls>>
       ELSE IF ~HasBearerPrefix(h) THEN
          /\ result' = [kind |-> "HTTPException", msg |-> "", cause |-> "", payload |-> None]
          /\ response' = InvalidTokenException
          /\ console' = ArkDebugPrints(skip_auth_env, h, NoResult)
          /\ UNCHANGED <<token, jwt_calls>>
       ELSE
          LET t == Split(h.text)[2]
              r == ValidateJwt(settings, t, ks) IN
          /\ token' = t
          /\ jwt_calls' = <<r>>
          /\ console' = ArkDebugPrints(skip_auth_env, h, r)
          /\ IF r.kind = "ok"
             THEN /\ result' = [kind |-> "ok", msg |-> "", cause |-> "", payload |-> None]
                  /\ UNCHANGED response
             ELSE /\ result' = [kind |-> "HTTPException", msg |-> "", cause |-> "",
                                payload |-> None]
                  /\ response' = InvalidTokenException

TokenStrings == { <<t>> : t \in TokenNames } \cup { <<" ", "tokA", " ">> }

Next ==
    \/ \E v \in SkipAuthValues : SetSkipAuth(v)
    \/ \E p \in Paths, h \in Headers : Dispatch(p, h)
    \/ \E p \in Paths, h \in Headers : LegacyDispatch(p, h)
    \/ \E t \in TokenStrings, ks \in KeySourceOutcomes : CallValidateToken(t, ks)
    \/ \E t \in TokenStrings : CallValidateTokenWithRetry(t)
    \/ \E ks \in KeySourceOutcomes : RetryStep(ks)
    \/ BackoffSleep
    \/ Return

Spec == Init /\ [][Next]_vars

\* validate_token under every audience / issuer policy
InitPolicy ==
    /\ config \in PolicyConfigs
    /\ settings = AuthSettings(None, None)
    /\ InitRest

NextPolicy ==
    \/ \E t \in TokenStrings, ks \in KeySourceOutcomes : CallValidateToken(t, ks)
    \/ \E ks \in KeySourceOutcomes : RevalidateToken(ks)
    \/ Return

SpecPolicy == InitPolicy /\ [][NextPolicy]_vars

\* the ark_auth package under every setting of the Okta issuer and audience
InitArkAuth ==
    /\ config = AuthConfig(None, None, Absent, Absent, None, DefaultRetries)
    /\ settings \in Settings
    /\ InitRest

NextArkAuth ==
    \/ \E v \in SkipAuthValues : SetSkipAuth(v)
    \/ \E t \in TokenStrings, ks \in KeySourceOutcomes : CallValidateJwt(t, ks)
    \/ \E h \in Headers, ks \in KeySourceOutcomes : ArkValidateToken(h, ks)
    \/ Return

SpecArkAuth == InitArkAuth /\ [][NextArkAuth]_vars

\* the entries the administrative operations register or withdraw
RouteEntries == PublicRoutes \cup { <<"/", "v1">> }

\* add_public_route(entry), between two requests
AddPublicRoute(r) ==
    /\ pc = "idle"
    /\ r \notin public_routes
    /\ public_routes' = public_routes \cup {r}
    /\ UNCHANGED arkVars /\ UNCHANGED taskVars
    /\ UNCHANGED <<config, skip_auth_env, validator, jwks_client, pc, caller, path, auth_header,
                   token, attempt, last_error, log, sleeps, result, response, forwarded>>

\* the removal of a public entry, between two requests
RemovePublicRoute(r) ==
    /\ pc = "idle"
    /\ r \in public_routes
    /\ public_routes' = public_routes \ {r}
    /\ UNCHANGED arkVars /\ UNCHANGED taskVars
    /\ UNCHANGED <<config, skip_auth_env, validator, jwks_client, pc, caller, path, auth_header,
                   token, attempt, last_error, log, sleeps, result, response, forwarded>>

\* the two gateways under a route table that is administered while they run
InitRoutes ==
    /\ config = AuthConfig(None, None, None, None, JwksUrl, 2)
    /\ settings = AuthSettings(None, None)
    /\ InitRest

NextRoutes ==
    \/ \E r \in RouteEntries : AddPublicRoute(r)
    \/ \E r \in RouteEntries : RemovePublicRoute(r)
    \/ \E p \in Paths, h \in Headers : Dispatch(p, h)
    \/ \E p \in Paths, h \in Headers : LegacyDispatch(p, h)
    \/ \E ks \in KeySourceOutcomes : RetryStep(ks)
    \/ BackoffSleep
    \/ Return

SpecRoutes == InitRoutes /\ [][NextRoutes]_vars

\* ------------------------------------------------------------ properties
\* what the request presents as a credential, read off the header itself
SchemeWords == {"Bearer", "bearer"}
RECURSIVE StripLeft(_)
StripLeft(s) == IF s # <<>> /\ s[1] = " " THEN StripLeft(Tail(s)) ELSE s
RECURSIVE StripRight(_)
StripRight(s) ==
    IF s # <<>> /\ s[Len(s)] = " " THEN StripRight(SubSeq(s, 1, Len(s) - 1)) ELSE s
Strip(s) == StripLeft(StripRight(s))

\* the header is missing, names another scheme, or carries no token
LacksCredential(h) ==
    \/ ~h.present
    \/ Strip(h.text) = <<>>
    \/ Strip(h.text)[1] \notin SchemeWords
    \/ Strip(Tail(Strip(h.text))) = <<>>

\* ARK_SKIP_AUTH is unset or is not "true" in any letter case
BypassOff == skip_auth_env \notin {"true", "TRUE"}

\* the token of a header of the form Bearer <token>
BearerTokenOf(h) == Strip(Tail(Strip(h.text)))
ProtectedRequest == caller = "dispatch" /\ BypassOff /\ IsRouteAuthenticated(path)
LastCall == log[Len(log)]

\* C1: with the bypass off, a request to a protected path reaches call_next
\* only after validate_token returned the payload for the token of its
\* Authorization header, and a request the middleware answered itself was
\* never passed to call_next.
C1_ForwardOnlyAfterValidation ==
    /\ (ProtectedRequest /\ forwarded) =>
          /\ ~LacksCredential(auth_header)
          /\ token = BearerTokenOf(auth_header)
          /\ log # <<>>
          /\ LastCall.kind = "ok"
          /\ <<LastCall.payload>> = BearerTokenOf(auth_header)
          /\ TokenClaims(LastCall.payload).signed
          /\ ~TokenClaims(LastCall.payload).expired
          /\ result.kind = "ok"
    /\ (caller = "dispatch" /\ response.status # 0) => ~forwarded

C1_Witness ==
    /\ ProtectedRequest /\ forwarded /\ pc = "done"
    /\ Len(log) >= 2
    /\ path = <<"/", "v1", "/", "namespaces">>

\* C2: with the bypass off, a request to a protected path whose Authorization
\* header is missing, is not of the Bearer scheme or has no token after the
\* prefix is answered 401 and validate_token_with_retry is never entered for it.
C2_NoCredentialRejectedUnvalidated ==
    (ProtectedRequest /\ LacksCredential(auth_header)) =>
        /\ pc = "done"
        /\ response.status = 401
        /\ ~forwarded
        /\ log = <<>> /\ sleeps = <<>> /\ attempt = 0
        /\ result = NoResult

C2_Witness ==
    /\ ProtectedRequest /\ pc = "done"
    /\ auth_header = HeaderOf(<<"Bearer", " ">>)
    /\ response = CreateAuthException("Missing token")

\* C3: a request to a public path is passed to call_next whatever its
\* Authorization header is, and the validator is never invoked for it.
C3_PublicForwardedUnvalidated ==
    /\ (caller = "dispatch" /\ ~IsRouteAuthenticated(path)) =>
          /\ pc = "done"
          /\ forwarded
          /\ response = NoResponse
          /\ log = <<>> /\ result = NoResult
    /\ (caller = "legacy" /\ IsUnprotected(path)) =>
          /\ pc = "done"
          /\ forwarded
          /\ response = NoResponse
          /\ token = <<>> /\ result = NoResult

C3_Witness ==
    /\ caller = "dispatch" /\ BypassOff /\ pc = "done" /\ forwarded
    /\ path = <<"/", "health", "/", "live">>
    /\ auth_header = HeaderOf(<<"Basic", " ", "tokA">>)

\* C4: with no JWKS URL configured no validate_token call returns a payload:
\* every direct call and every call with retry ends in an error, no JWKS
\* client ever exists, and no request is forwarded on the strength of a token.
C4_NoJwksUrlFailsClosed ==
    ~Truthy(config.jwks_url) =>
        /\ jwks_client = FALSE
        /\ \A i \in 1..Len(log) : log[i].kind # "ok" /\ log[i].payload = None
        /\ result.kind # "ok" /\ result.payload = None
        /\ (pc = "done" /\ caller \in {"validate", "with_retry"}) =>
              result.kind \in {"TokenValidationError", "InvalidTokenError", "ExpiredTokenError"}
        /\ (ProtectedRequest /\ pc = "done") => (~forwarded /\ response.status = 401)

C4_Witness ==
    /\ ~Truthy(config.jwks_url)
    /\ validator
    /\ pc = "done" /\ caller = "with_retry"
    /\ token = <<"tokA">>
    /\ Len(log) >= 2
    /\ result.kind = "TokenValidationError"

\* the failure classes of one validate_token call
ConfigurationFailure(r) ==
    r.kind = "TokenValidationError" /\ r.cause = "JWKS URL not configured"
DeterministicFailure(r) ==
    r.kind \in {"ExpiredTokenError", "InvalidTokenError"} \/ ConfigurationFailure(r)
TransientFailure(r) ==
    r.kind = "TokenValidationError" /\ r.cause = "PyJWKClientError"

InRetry == caller \in {"with_retry", "dispatch"}
RetryReturned == InRetry /\ pc = "done" /\ result.kind # "none"

\* C6: a validate_token failure that is ExpiredToken, InvalidToken, DecodeError
\* or a configuration error is not retried: one attempt, no backoff delay.
C6_DeterministicFailureNotRetried ==
    (InRetry /\ log # <<>> /\ DeterministicFailure(log[1])) =>
        /\ Len(log) = 1
        /\ sleeps = <<>>
        /\ pc # "sleep"

\* C7: validate_token_with_retry calls validate_token at most
\* token_validation_retries times; when every attempt fails with a key-source
\* error it makes exactly that many attempts, sleeps between two attempts and
\* not after the last one, and raises the error of the last attempt.
C7_BoundedAttempts ==
    InRetry =>
        /\ Len(log) <= config.token_validation_retries
        /\ Len(sleeps) <= Len(log)
        /\ (pc = "done" /\ log # <<>>) => Len(sleeps) = Len(log) - 1
        /\ (RetryReturned /\ \A i \in 1..Len(log) : TransientFailure(log[i])) =>
              /\ Len(log) = config.token_validation_retries
              /\ log # <<>> => /\ Len(sleeps) = config.token_validation_retries - 1
                               /\ result = ResultOf(LastCall)
                               /\ last_error = ErrorOf(LastCall)

C7_Witness ==
    /\ RetryReturned /\ caller = "with_retry"
    /\ config.token_validation_retries = 3
    /\ Len(log) = 3 /\ Len(sleeps) = 2
    /\ \A i \in 1..Len(log) : TransientFailure(log[i])

\* the duration fields of the policy, in units of 100 ms
PolicyDurations(cfg) == {cfg.jwks_cache_ttl * 10, cfg.token_validation_timeout * 10}

SucceededOnAttempt(k) ==
    /\ RetryReturned /\ result.kind = "ok"
    /\ Len(log) = k
    /\ \A i \in 1..(k - 1) : TransientFailure(log[i])

Configured(v) == v \notin {Absent, None, ""}

\* C5: validate_jwt returns a payload only for a token it has verified
\* (signature, audience, issuer); with okta_issuer or okta_audience not
\* configured it returns no payload for the token.
C5_PayloadOnlyIfVerified ==
    \A i \in 1..Len(jwt_calls) :
        jwt_calls[i].kind = "ok" =>
            /\ jwt_calls[i].verified
            /\ Configured(settings.okta_issuer) /\ Configured(settings.okta_audience)
            /\ IsJwtString(jwt_calls[i].token)
            /\ TokenClaims(jwt_calls[i].token[1]).signed
            /\ TokenClaims(jwt_calls[i].token[1]).aud = settings.okta_audience
            /\ TokenClaims(jwt_calls[i].token[1]).iss = settings.okta_issuer

\* C9: with the Okta and the generic JWT audience and issuer all configured,
\* validate_token passes the Okta audience and issuer to decode.
C9_PrimaryTakesPrecedence ==
    \A i \in 1..Len(log) :
        ( /\ log[i].decode.called
          /\ Configured(config.okta_audience) /\ Configured(config.jwt_audience)
          /\ Configured(config.okta_issuer) /\ Configured(config.jwt_issuer) ) =>
            /\ log[i].decode.audience = config.okta_audience
            /\ log[i].decode.issuer = config.okta_issuer

\* C10: when the Okta audience (issuer) is unset or empty, validate_token
\* passes the generic JWT audience (issuer) to decode, each on its own.
C10_FallbackToSecondary ==
    \A i \in 1..Len(log) :
        log[i].decode.called =>
            /\ ~Configured(config.okta_audience) =>
                  log[i].decode.audience = config.jwt_audience
            /\ ~Configured(config.okta_issuer) =>
                  log[i].decode.issuer = config.jwt_issuer

\* ARK_SKIP_AUTH is "true" in some letter case
BypassOn == skip_auth_env \in {"true", "TRUE"}

\* C11: AuthMiddleware reads ARK_SKIP_AUTH when the request arrives: a request
\* that arrives while it is "true" in any letter case is passed to call_next
\* whatever its path and header are, without any validation, and a request
\* that arrives after the flag was turned off is authenticated again by the
\* same middleware and validator.
C11_BypassReadPerRequest ==
    [][ (pc = "idle" /\ caller' = "dispatch") =>
          /\ skip_auth_env' = skip_auth_env
          /\ BypassOn =>
                /\ pc' = "done" /\ forwarded'
                /\ response' = NoResponse /\ log' = <<>> /\ token' = <<>>
                /\ validator' = validator
          /\ (~BypassOn /\ \A r \in PublicRoutes : ~StartsWith(path', r)) =>
                /\ ~forwarded'
                /\ LacksCredential(auth_header') =>
                      (pc' = "done" /\ response'.status = 401)
                /\ ~LacksCredential(auth_header') =>
                      (pc' = "done" => response'.status = 401) ]_vars

\* the bypass was turned on after the validator had been built by an earlier,
\* authenticated request, and a request with no header to a protected path
\* went through
C11_Witness ==
    /\ caller = "dispatch" /\ pc = "done"
    /\ skip_auth_env = "TRUE"
    /\ validator /\ jwks_client
    /\ path = <<"/", "v1", "/", "namespaces">>
    /\ auth_header = NoHeader
    /\ forwarded

\* a request one of the two gateways did not pass to call_next
GatewayRejected == caller \in {"dispatch", "legacy"} /\ pc = "done" /\ ~forwarded

\* C12: a request to a protected path that the gateway does not forward is
\* answered by the gateway with a 401 response; the failure does not leave
\* dispatch as a raised exception.
C12_AuthFailureIs401 ==
    GatewayRejected =>
        /\ response.status = 401
        /\ result.kind # "HTTPException"

\* C13: the detail of the 401 that AuthMiddleware returns after a validator
\* error names the error kind: "Token has expired" for an expired token,
\* "Invalid token" for an invalid one, the error's own text for a generic
\* validation failure.
C13_DetailNamesErrorKind ==
    (caller = "dispatch" /\ GatewayRejected /\ result.kind # "none") =>
        /\ result.kind = "ExpiredTokenError" => response.detail = "Token has expired"
        /\ result.kind = "InvalidTokenError" => response.detail = "Invalid token"
        /\ result.kind = "TokenValidationError" => response.detail = result.msg

\* C14: with no JWKS URL configured every validate_token call fails with the
\* configuration-error kind, which is not the generic validation-failed kind,
\* and without a JWKS client being created or the key source being contacted.
C14_ConfigurationErrorKind ==
    ~Truthy(config.jwks_url) =>
        /\ jwks_client = FALSE
        /\ \A i \in 1..Len(log) :
              /\ log[i].kind = "AuthConfigurationError"
              /\ log[i].kind # "TokenValidationError"
              /\ log[i].fetched = 0
              /\ log[i].client = FALSE

\* the number of times the key source was contacted by the calls in a log
RECURSIVE KeySourceContacts(_)
KeySourceContacts(calls) ==
    IF calls = <<>> THEN 0 ELSE Head(calls).fetched + KeySourceContacts(Tail(calls))

\* C15: with a JWKS URL configured, validating a structurally malformed token
\* fails with a decode-error kind that is neither the invalid-token kind nor
\* the generic kind, and the key source is contacted at most once for the
\* token, by validate_token_with_retry too.
C15_MalformedIsDecodeError ==
    (Truthy(config.jwks_url) /\ log # <<>> /\ ~IsJwtString(token)) =>
        /\ \A i \in 1..Len(log) :
              log[i].kind \notin {"ok", "InvalidTokenError", "TokenValidationError"}
        /\ KeySourceContacts(log) <= 1

\* C16: on a protected path a header that is Bearer <token> up to the letter
\* case of the scheme word and blanks around the header or the token is taken
\* as a credential: the validator is entered with exactly <token>, and the
\* request is not turned away as lacking a credential.
C16_SchemeCaseAndBlanksTolerated ==
    (ProtectedRequest /\ ~LacksCredential(auth_header)) =>
        /\ token = BearerTokenOf(auth_header)
        /\ response.detail \notin {"Missing or invalid authorization header", "Missing token"}

\* sub occurs in rec as a run of consecutive symbols
Contains(rec, sub) ==
    \E k \in 1..(Len(rec) - Len(sub) + 1) : SubSeq(rec, k, k + Len(sub) - 1) = sub

\* C17: nothing written to the console while a request is authenticated
\* contains the token of the request or its whole Authorization header.
C17_NoTokenInOutput ==
    \A i \in 1..Len(console) :
        /\ token # <<>> => ~Contains(console[i], token)
        /\ (auth_header.present /\ auth_header.text # <<>>) =>
              ~Contains(console[i], auth_header.text)

\* no entry of the table is a leading part of the path, whole segments or not
NoEntryMatches(p, entries) == \A r \in entries : ~StartsWith(p, r)

\* the token of a forwarded request was accepted by the JWT library
AcceptedToken(tok) ==
    /\ Len(tok) = 1 /\ tok[1] \in TokenNames
    /\ TokenClaims(tok[1]).wellformed /\ TokenClaims(tok[1]).signed
    /\ ~TokenClaims(tok[1]).expired

PublicByEntry(p, entries) ==
    \E r \in entries :
        \/ p = r
        \/ Len(p) > Len(r) /\ SubSeq(p, 1, Len(r)) = r /\ p[Len(r) + 1] = "/"

\* the request went to call_next without its header having been looked at
ForwardedUninspected == pc = "done" /\ forwarded /\ token = <<>> /\ log = <<>>

\* C19: a request is forwarded without credential inspection exactly when its
\* path equals a registered public entry or has one as a path-prefix, in
\* AuthMiddleware and in AuthenticationMiddleware.
C19_PublicIffEntryOrPathPrefix ==
    /\ (caller = "dispatch" /\ BypassOff) =>
          (ForwardedUninspected <=> PublicByEntry(path, public_routes))
    /\ caller = "legacy" =>
          (ForwardedUninspected <=> PublicByEntry(path, UnprotectedRoutes))

\* the key source answered in this call, as far as the call got to ask it
KeySourceAnswered(r) == r.cause # "PyJWKClientError"

EmptyBearerHeader == HeaderOf(<<"Bearer", " ">>)

\* C21: with the bypass off, the ark_auth dependency answers the header
\* "Bearer " (empty token) with the 401 InvalidTokenException and does not
\* call validate_jwt for it.
C21_EmptyBearerRejectedUnvalidated ==
    (caller = "ark_validate_token" /\ BypassOff /\ auth_header = EmptyBearerHeader) =>
        /\ jwt_calls = <<>>
        /\ result.kind = "HTTPException"
        /\ response = InvalidTokenException

\* C22: validate_token has the library verify the audience exactly when the
\* effective audience is a non-empty string, and the issuer exactly when the
\* effective issuer is one: an empty effective value switches the check off
\* as an unset one does, whatever the primary and secondary values are.
C22_VerifyIffNonEmpty ==
    \A i \in 1..Len(log) :
        log[i].decode.called =>
            /\ log[i].decode.verify_aud <=> Truthy(log[i].decode.audience)
            /\ log[i].decode.verify_iss <=> Truthy(log[i].decode.issuer)

\* the error kinds ark_sdk.auth makes public
PublicErrorKinds == {"ExpiredTokenError", "InvalidTokenError", "TokenValidationError"}

\* C23: every validate_token call returns the payload or raises one of the
\* public error kinds, the kind being that of its failure class: an expired
\* signature ExpiredTokenError, any other rejection by the JWT library the
\* auth InvalidTokenError, everything else TokenValidationError; what
\* validate_token_with_retry raises is one of these kinds as well.
C23_FailuresArePublicKinds ==
    /\ \A i \in 1..Len(log) :
          /\ log[i].kind \in {"ok"} \cup PublicErrorKinds
          /\ log[i].kind = "ok" <=> log[i].cause = ""
          /\ log[i].cause = "ExpiredSignatureError" => log[i].kind = "ExpiredTokenError"
          /\ log[i].cause \in PyJwtInvalidTokenErrors \ {"ExpiredSignatureError"} =>
                log[i].kind = "InvalidTokenError"
          /\ (log[i].cause # "" /\ log[i].cause \notin PyJwtInvalidTokenErrors) =>
                log[i].kind = "TokenValidationError"
    /\ (caller \in {"validate", "with_retry", "dispatch"} /\ result.kind # "none") =>
          result.kind \in {"ok"} \cup PublicErrorKinds

C23_Witness ==
    /\ caller = "with_retry" /\ pc = "done"
    /\ token = <<"tokExp">>
    /\ Len(log) = 1 /\ log[1].cause = "ExpiredSignatureError"
    /\ result.kind = "ExpiredTokenError" /\ result.msg = "Token has expired"

\* ------------------------------------------------- the shared validator
\* the policies the environment holds while the process runs
SharedEnvirons ==
    { AuthConfig(None, None, None, None, JwksUrl, 2),
      AuthConfig("jwt-audience", "jwt-issuer", None, None, JwksUrl, 1) }

TaskTokens == { <<"tokA">>, <<"tokExp">> }

\* the variables of the single sequential request, which the concurrent ones leave alone
requestVars == <<skip_auth_env, pc, caller, path, auth_header, token, attempt, last_error,
                 log, sleeps, result, response, forwarded, settings, jwt_calls, console,
                 public_routes>>

\* the environment is changed while the process runs
SetEnviron(e) ==
    /\ e # environ
    /\ environ' = e
    /\ UNCHANGED <<config, validator, jwks_client, tasks, key_cache, clock>>
    /\ UNCHANGED requestVars

\* time passes
Tick ==
    /\ clock < MaxTicks * TickSeconds
    /\ clock' = clock + TickSeconds
    /\ UNCHANGED <<config, validator, jwks_client, environ, tasks, key_cache>>
    /\ UNCHANGED requestVars

\* the dependency validate_token of one of the concurrent requests, from
\* get_validator() to the call of validate_token_with_retry
TaskValidate(p, tok) ==
    /\ tasks[p].pc = "idle"
    /\ validator' = TRUE
    /\ config' = GetValidator(validator, config, environ)
    /\ tasks' = [tasks EXCEPT ![p] = [IdleTask EXCEPT !.pc = "loop", !.token = tok]]
    /\ UNCHANGED <<jwks_client, environ, key_cache, clock>>
    /\ UNCHANGED requestVars

\* faulty variant: the backoff sleep of one request keeps the others from running
TaskAttemptSerialized(p, src) ==
    /\ \A q \in TaskIds : tasks[q].pc # "sleep"
    /\ tasks[p].pc = "loop"
    /\ UNCHANGED <<config, validator, environ, clock>>
    /\ UNCHANGED requestVars
    /\ IF LoopExhausted(config, tasks[p].attempt) THEN
          /\ tasks' = [tasks EXCEPT ![p].pc = "done",
                                    ![p].verdict = IF tasks[p].last_error # "none"
                                                   THEN tasks[p].last_error
                                                   ELSE "TokenValidationError"]
          /\ UNCHANGED <<jwks_client, key_cache>>
       ELSE
          LET r == ValidateTokenCached(config, jwks_client, tasks[p].token, key_cache,
                                       clock, src) IN
          /\ jwks_client' = r.client
          /\ key_cache' = r.cache
          /\ IF r.kind = "ok" \/ ~IsTokenValidationError(r.kind) THEN
                tasks' = [tasks EXCEPT ![p].pc = "done", ![p].verdict = r.kind,
                                       ![p].key_at = r.key_at]
             ELSE IF ShouldSleep(config, tasks[p].attempt) THEN
                tasks' = [tasks EXCEPT ![p].pc = "sleep", ![p].last_error = r.kind,
                                       ![p].key_at = r.key_at]
             ELSE
                tasks' = [tasks EXCEPT ![p].attempt = @ + 1, ![p].last_error = r.kind,
                                       ![p].key_at = r.key_at]

\* one iteration of the retry loop of a concurrent request, or the loop's
\* exit: everything between two awaits that give up the event loop
TaskAttempt(p, src) ==
    /\ tasks[p].pc = "loop"
    /\ UNCHANGED <<config, validator, environ, clock>>
    /\ UNCHANGED requestVars
    /\ IF LoopExhausted(config, tasks[p].attempt) THEN
          /\ tasks' = [tasks EXCEPT ![p].pc = "done",
                                    ![p].verdict = IF tasks[p].last_error # "none"
                                                   THEN tasks[p].last_error
                                                   ELSE "TokenValidationError"]
          /\ UNCHANGED <<jwks_client, key_cache>>
       ELSE
          LET r == ValidateTokenCached(config, jwks_client, tasks[p].token, key_cache,
                                       clock, src) IN
          /\ jwks_client' = r.client
          /\ key_cache' = r.cache
          /\ IF r.kind = "ok" \/ ~IsTokenValidationError(r.kind) THEN
                tasks' = [tasks EXCEPT ![p].pc = "done", ![p].verdict = r.kind,
                                       ![p].key_at = r.key_at]
             ELSE IF ShouldSleep(config, tasks[p].attempt) THEN
                tasks' = [tasks EXCEPT ![p].pc = "sleep", ![p].last_error = r.kind,
                                       ![p].key_at = r.key_at]
             ELSE
                tasks' = [tasks EXCEPT ![p].attempt = @ + 1, ![p].last_error = r.kind,
                                       ![p].key_at = r.key_at]

\* the asyncio.sleep of a concurrent request returns
TaskWake(p) ==
    /\ tasks[p].pc = "sleep"
    /\ tasks' = [tasks EXCEPT ![p].pc = "loop", ![p].attempt = @ + 1]
    /\ UNCHANGED <<config, validator, jwks_client, environ, key_cache, clock>>
    /\ UNCHANGED requestVars

\* a concurrent request is answered and its task ends
TaskReturn(p) ==
    /\ tasks[p].pc = "done"
    /\ tasks' = [tasks EXCEPT ![p] = IdleTask]
    /\ UNCHANGED <<config, validator, jwks_client, environ, key_cache, clock>>
    /\ UNCHANGED requestVars

\* the next step of request p, whatever it is
TaskStep(p) ==
    \/ \E tok \in TaskTokens : TaskValidate(p, tok)
    \/ \E src \in KeySourceOutcomes : TaskAttempt(p, src)
    \/ TaskWake(p)
    \/ TaskReturn(p)

InitShared ==
    /\ config \in SharedEnvirons
    /\ settings = AuthSettings(None, None)
    /\ InitRest

NextShared ==
    \/ \E e \in SharedEnvirons : SetEnviron(e)
    \/ Tick
    \/ \E p \in TaskIds, tok \in TaskTokens : TaskValidate(p, tok)
    \/ \E p \in TaskIds, src \in KeySourceOutcomes : TaskAttempt(p, src)
    \/ \E p \in TaskIds : TaskWake(p)
    \/ \E p \in TaskIds : TaskReturn(p)

\* concurrent requests on the one validator of the process
SpecShared == InitShared /\ [][NextShared]_vars

Attempts(p) ==
    /\ tasks[p].pc = "loop"
    /\ ~LoopExhausted(config, tasks[p].attempt)
    /\ tasks'[p] # tasks[p]

\* the key set in the cache was fetched longer ago than the configured TTL
CacheStale == key_cache.keys # {} /\ clock - key_cache.at > config.jwks_cache_ttl

C26_SleepBlocksNoOne ==
    \A p, q \in TaskIds :
        (p # q /\ tasks[p].pc = "sleep") => ENABLED TaskStep(q)

\* request 1 is in its first backoff sleep, after a fetch that failed while
\* the cache was empty; request 2 has since then fetched the keys and has
\* its verdict
C26_Witness ==
    /\ tasks[1].pc = "sleep" /\ tasks[1].attempt = 0 /\ tasks[1].key_at = -1
    /\ clock = 0
    /\ tasks[2].pc = "done" /\ tasks[2].verdict = "ok" /\ tasks[2].key_at = 0

\* C27: once get_validator has built the validator, it stays the validator of
\* the process and its policy stays what it was built with: no request and no
\* change of the environment alters a field of it.
C27_PolicyFixedAtFirstUse ==
    [][validator => (validator' /\ config' = config)]_vars

\* the environment has changed since the validator was built, and a request
\* has been validated under the policy it was built with
C27_Witness ==
    /\ validator /\ environ # config
    /\ \E p \in TaskIds : tasks[p].pc = "done" /\ tasks[p].verdict = "InvalidTokenError"
                          /\ tasks[p].token = <<"tokA">>
    /\ \E p \in TaskIds : tasks[p].pc = "loop" /\ tasks[p].attempt = 0

\* ------------------------------------------------- requests under fairness
LiveConfigs ==
    { AuthConfig(None, None, None, None, url, n) :
        url \in {None, JwksUrl}, n \in 0..MaxRetries }

InitLive ==
    /\ config \in LiveConfigs
    /\ settings = AuthSettings(None, None)
    /\ InitRest

NextLive ==
    \/ \E v \in SkipAuthValues : SetSkipAuth(v)
    \/ \E p \in Paths, h \in Headers : Dispatch(p, h)
    \/ \E t \in TokenStrings : CallValidateTokenWithRetry(t)
    \/ \E ks \in KeySourceOutcomes : RetryStep(ks)
    \/ BackoffSleep
    \/ Return

\* every validate_token call returns or raises (each key-source call returns
\* or fails) and every asyncio.sleep returns
SpecLive ==
    /\ InitLive /\ [][NextLive]_vars
    /\ WF_vars(\E ks \in KeySourceOutcomes : RetryStep(ks))
    /\ WF_vars(BackoffSleep)

\* the request has its outcome
Terminal == pc = "done"

\* C28: a request AuthMiddleware.dispatch handles comes to an end, and at its
\* end it has either been passed to call_next or been answered by the
\* middleware, never both and never neither; a validate_token_with_retry call
\* that has entered its loop leaves it.
C28_RequestReachesOneOutcome ==
    /\ [](caller = "dispatch" => (Terminal => (forwarded <=> response.status = 0)))
    /\ [](caller = "dispatch" => (~Terminal => (~forwarded /\ response.status = 0)))
    /\ (caller = "dispatch") ~> (caller = "dispatch" /\ Terminal)
    /\ (pc \in {"loop", "sleep"}) ~> Terminal

\* a request was turned away after every attempt allowed had failed on the key source
C28_Witness ==
    /\ caller = "dispatch" /\ Terminal
    /\ config.token_validation_retries = MaxRetries
    /\ Len(log) = MaxRetries /\ Len(sleeps) = MaxRetries - 1
    /\ ~forwarded /\ response.status = 401

\* ------------------------------------------- policies that allow no attempt
\* token_validation_retries is an int: nothing keeps it from being 0 or negative
DegenerateRetries == {0, 0 - 1, 0 - 2}

DegenerateConfigs ==
    { AuthConfig(p[1], p[2], p[3], p[4], url, n) :
        p \in Profiles, url \in {None, "", JwksUrl}, n \in DegenerateRetries }

InitDegenerate ==
    /\ config \in DegenerateConfigs
    /\ settings = AuthSettings(None, None)
    /\ InitRest

NextDegenerate ==
    \/ \E p \in Paths, h \in Headers : Dispatch(p, h)
    \/ \E t \in TokenStrings : CallValidateTokenWithRetry(t)
    \/ \E ks \in KeySourceOutcomes : RetryStep(ks)
    \/ Return

SpecDegenerate == InitDegenerate /\ [][NextDegenerate]_vars

\* C29: with token_validation_retries 0 or negative, validate_token_with_retry
\* makes no validate_token call and no sleep and raises TokenValidationError;
\* it never returns claims, and no request is forwarded on its account.
C29_NoAttemptAllowedFails ==
    (InRetry /\ config.token_validation_retries <= 0) =>
        /\ log = <<>> /\ sleeps = <<>> /\ attempt = 0 /\ pc # "sleep"
        /\ jwks_client = FALSE
        /\ result.kind # "ok" /\ result.payload = None
        /\ (pc = "done" /\ token # <<>>) =>
              /\ result.kind = "TokenValidationError"
              /\ result.msg = "Token validation failed after retries"
        /\ (ProtectedRequest /\ pc = "done") => (~forwarded /\ response.status = 401)

C29_Witness ==
    /\ caller = "with_retry" /\ pc = "done"
    /\ config.token_validation_retries < 0
    /\ Truthy(config.jwks_url)
    /\ token = <<"tokA">>
    /\ result.kind = "TokenValidationError"

\* the validate_jwt call ended in the general except clause
FetchFailed(r) == r.kind = "ValueError" /\ r.msg = "Token validation failed"

\* C30: when validate_jwt returns or raises, the HTTP session of the key
\* fetcher it created is closed, whether the token was accepted, was rejected
\* or the key could not be fetched; and a call that asks for no key, the one
\* that returns the mock payload, has created no fetcher and so no session.
C30_FetcherSessionClosed ==
    \A i \in 1..Len(jwt_calls) :
        /\ jwt_calls[i].fetcher => jwt_calls[i].session = "closed"
        /\ ~jwt_calls[i].key_asked =>
              (~jwt_calls[i].fetcher /\ jwt_calls[i].session = "none")
        /\ jwt_calls[i].session # "open"

C30_Witness ==
    /\ caller = "validate_jwt" /\ pc = "done"
    /\ jwt_calls # <<>>
    /\ FetchFailed(jwt_calls[1])
    /\ token = <<"tokA">>
    /\ jwt_calls[1].fetcher /\ jwt_calls[1].session = "closed"

====
